---- MODULE Spec2Model ----
(***************************************************************************)
(* A model of the_snake.py: the game loop of main(), the Snake object, the *)
(* three entities (Apple, BadFood, Obstacle), the key handler and the      *)
(* high-score file.  One tick of main()'s while-loop is the sequence of    *)
(* steps keys -> update -> move -> apple -> bad -> obstacle -> draw.       *)
(***************************************************************************)
EXTENDS Integers, Sequences, FiniteSets

(* ------------------------------------------------------------------ *)
(* Bounds of the model.                                                *)
(* ------------------------------------------------------------------ *)
\* The board is HalfCols*2 cells wide and HalfRows*2 cells high (the source's
\* board, 32 x 24 cells, has even dimensions too).
HalfCols == 1
HalfRows == 1
\* Q is not pressed once the tick rate would exceed MaxSpeed.
MaxSpeed == 12
\* save_high_score is tried with the scores 0..MaxScore.
MaxScore == 12
\* highscore.txt starts with a text of at most MaxText characters.
MaxText == 3

(* ------------------------------------------------------------------ *)
(* Constants of the program.                                           *)
(* ------------------------------------------------------------------ *)
GRID_SIZE == 20
SPEED == 10

SCREEN_WIDTH == 2 * HalfCols * GRID_SIZE
SCREEN_HEIGHT == 2 * HalfRows * GRID_SIZE
GRID_WIDTH == SCREEN_WIDTH \div GRID_SIZE
GRID_HEIGHT == SCREEN_HEIGHT \div GRID_SIZE

ALL_CELLS ==
    {<<x * GRID_SIZE, y * GRID_SIZE>> :
        x \in 0..(GRID_WIDTH - 1), y \in 0..(GRID_HEIGHT - 1)}

UP == <<0, -1>>
DOWN == <<0, 1>>
LEFT == <<-1, 0>>
RIGHT == <<1, 0>>
Directions == {UP, DOWN, LEFT, RIGHT}

\* Python's None (falsy, unlike every direction tuple).
None == <<>>

\* The keys of a KEYDOWN event: the four arrows, Q, W, Escape and any other.
ArrowKeys == {"K_UP", "K_DOWN", "K_LEFT", "K_RIGHT"}
Keys == ArrowKeys \cup {"K_q", "K_w", "K_ESCAPE", "K_a"}

\* handle_keys' direction_map, with dict.get's None for a key it lacks.
direction_map(key) ==
    CASE key = "K_UP" -> UP
      [] key = "K_DOWN" -> DOWN
      [] key = "K_LEFT" -> LEFT
      [] key = "K_RIGHT" -> RIGHT
      [] OTHER -> None

(* ------------------------------------------------------------------ *)
(* The high-score file: text <-> integer.                              *)
(* ------------------------------------------------------------------ *)
Digits == <<"0", "1", "2", "3", "4", "5", "6", "7", "8", "9">>
DigitSet == {Digits[i] : i \in DOMAIN Digits}
Whitespace == {" ", "\n"}

DigitVal(c) == (CHOOSE i \in DOMAIN Digits : Digits[i] = c) - 1

RECURSIVE StripLeft(_)
StripLeft(s) ==
    IF s # <<>> /\ Head(s) \in Whitespace THEN StripLeft(Tail(s)) ELSE s

RECURSIVE StripRight(_)
StripRight(s) ==
    IF s # <<>> /\ s[Len(s)] \in Whitespace
    THEN StripRight(SubSeq(s, 1, Len(s) - 1))
    ELSE s

\* str.strip()
Strip(s) == StripRight(StripLeft(s))

RECURSIVE DigitsValue(_)
DigitsValue(s) ==
    IF s = <<>> THEN 0
    ELSE 10 * DigitsValue(SubSeq(s, 1, Len(s) - 1)) + DigitVal(s[Len(s)])

AllDigits(s) == s # <<>> /\ \A i \in DOMAIN s : s[i] \in DigitSet

\* An int() that accepts digits only, as str.isdigit() would.
IsIntText_unsigned(s) == AllDigits(s)

\* int(text) succeeds: an optional sign, then one or more decimal digits.
IsIntText(s) ==
    \/ AllDigits(s)
    \/ s # <<>> /\ Head(s) \in {"-", "+"} /\ AllDigits(Tail(s))

\* int(text), for a text int() accepts.
IntOf(s) ==
    IF Head(s) = "-" THEN 0 - DigitsValue(Tail(s))
    ELSE IF Head(s) = "+" THEN DigitsValue(Tail(s))
    ELSE DigitsValue(s)

RECURSIVE NatStr(_)
NatStr(n) ==
    IF n < 10 THEN <<Digits[n + 1]>>
    ELSE NatStr(n \div 10) \o <<Digits[(n % 10) + 1]>>

\* str(score)
Str(n) == IF n < 0 THEN <<"-">> \o NatStr(0 - n) ELSE NatStr(n)

\* The file highscore.txt: absent, or present with a text.
NoFile == [exists |-> FALSE, text |-> <<>>]
FileWith(t) == [exists |-> TRUE, text |-> t]

load_high_score(f) ==
    IF f.exists
    THEN LET t == Strip(f.text) IN IF IsIntText(t) THEN IntOf(t) ELSE 0
    ELSE 0

\* A save that writes the score as a float would print, "10.0".
save_high_score_as_float(score) == FileWith(Str(score) \o <<".", "0">>)

save_high_score(score) == FileWith(Str(score))

\* A change_title that saves without comparing with the stored value.
change_title_unconditional(f, snake_length) == save_high_score(snake_length)

\* change_title's effect on the file (the window caption is not modelled).
change_title(f, snake_length) ==
    IF snake_length > load_high_score(f)
    THEN save_high_score(snake_length)
    ELSE f

\* The states highscore.txt may be in when the process starts.
InitFiles ==
    {NoFile, FileWith(<<"a", "b", "c">>), FileWith(<<"2", "\n">>)}

(* ------------------------------------------------------------------ *)
(* The grid and the snake.                                             *)
(* ------------------------------------------------------------------ *)
SetOf(seq) == {seq[i] : i \in DOMAIN seq}

\* A free-cell query that forgets to take the snake's cells out.
get_available_positions_all(snake_positions) == ALL_CELLS

get_available_positions(snake_positions) == ALL_CELLS \ SetOf(snake_positions)

\* Snake.__init__: the cell the snake is created and reset on.
Center == <<SCREEN_WIDTH \div 2, SCREEN_HEIGHT \div 2>>

\* A snake created on GameObject's default position (0, 0).
SnakeInit_at_origin ==
    [length |-> 1, positions |-> <<(<<0, 0>>)>>, direction |-> RIGHT,
     next_direction |-> None, last |-> None]

\* Snake.__init__: the fields of a new, or reset, snake.
SnakeInit ==
    [length |-> 1, positions |-> <<Center>>, direction |-> RIGHT,
     next_direction |-> None, last |-> None]

\* A new head cell computed without the wraparound.
NewHead_no_wrap(cur, d) == <<cur[1] + d[1] * GRID_SIZE, cur[2] + d[2] * GRID_SIZE>>

\* A new head cell that stops at the board's edge instead of wrapping.
NewHead_clamped(cur, d) ==
    LET x == cur[1] + d[1] * GRID_SIZE
        y == cur[2] + d[2] * GRID_SIZE
        clamp(v, top) == IF v < 0 THEN 0 ELSE IF v >= top THEN top - GRID_SIZE ELSE v
    IN  <<clamp(x, SCREEN_WIDTH), clamp(y, SCREEN_HEIGHT)>>

\* Snake.move's new head cell.
NewHead(cur, d) ==
    <<(cur[1] + d[1] * GRID_SIZE) % SCREEN_WIDTH,
      (cur[2] + d[2] * GRID_SIZE) % SCREEN_HEIGHT>>

\* A slice that starts one cell too late, positions[2:].
Rest_from_third(seq) == SubSeq(seq, 3, Len(seq))

\* positions[1:]
Rest(seq) == IF seq = <<>> THEN <<>> ELSE Tail(seq)

\* positions after positions.pop()
Popped(seq) == SubSeq(seq, 1, Len(seq) - 1)

VARIABLES
    pc,             \* where main() is
    length,         \* snake.length
    positions,      \* snake.positions, head first
    direction,      \* snake.direction
    next_direction, \* snake.next_direction
    last,           \* snake.last: the tail cell move() popped, or None
    apple,          \* apple.position
    bad_food,       \* bad_food.position
    obstacle,       \* obstacle.position
    current_speed,  \* main's current_speed
    file,           \* highscore.txt
    high_score,     \* what the last load_high_score() returned, None before it
    score,          \* the argument of the last save_high_score(), None before it
    prev_direction, \* snake.direction as update_direction found it, until move()
    last_arrow,     \* the direction of the poll's last arrow-key event, until move()
    ateApple,       \* the apple branch ran in the current tick
    shrunk,         \* the bad food's shrink branch ran in the current tick
    resets          \* the places that called snake.reset() in the current tick

vars ==
    <<pc, length, positions, direction, next_direction, last, apple, bad_food,
      obstacle, current_speed, file, high_score, score, prev_direction,
      last_arrow, ateApple, shrunk, resets>>

snakeVars == <<length, positions, direction, next_direction, last>>
entityVars == <<apple, bad_food, obstacle>>
tickVars == <<ateApple, shrunk, resets>>
scoreVars == <<file, high_score, score>>
inputVars == <<prev_direction, last_arrow>>

\* snake.get_head_position(), where positions is not empty
HeadPos == positions[1]

\* main() up to the first change_title: the snake and the entities are built.
Init ==
    /\ pc = "start"
    /\ length = SnakeInit.length
    /\ positions = SnakeInit.positions
    /\ direction = SnakeInit.direction
    /\ next_direction = SnakeInit.next_direction
    /\ last = SnakeInit.last
    /\ apple \in get_available_positions(positions)
    /\ bad_food \in get_available_positions(positions)
    /\ obstacle \in get_available_positions(positions)
    /\ current_speed = SPEED
    /\ file \in InitFiles
    /\ high_score = None
    /\ score = None
    /\ prev_direction = None
    /\ last_arrow = None
    /\ ateApple = FALSE
    /\ shrunk = FALSE
    /\ resets = {}

\* A call change_title(snake_length): its load_high_score and, when the
\* length is above the stored value, its save_high_score.
ChangeTitleCall(snake_length) ==
    /\ high_score' = load_high_score(file)
    /\ file' = change_title(file, snake_length)
    /\ score' = (IF snake_length > load_high_score(file) THEN snake_length ELSE score)

\* main: change_title(snake.length) before the loop.
Startup ==
    /\ pc = "start"
    /\ ChangeTitleCall(length)
    /\ pc' = "keys"
    /\ UNCHANGED <<snakeVars, entityVars, current_speed, inputVars, tickVars>>

\* handle_keys: current_speed += 2
SpeedUp(speed) == speed + 2

\* A decrease without the floor.
SlowDown_no_floor(speed) == speed - 2

\* handle_keys: current_speed = max(1, current_speed - 2)
SlowDown(speed) == IF speed - 2 > 1 THEN speed - 2 ELSE 1

\* handle_keys: one KEYDOWN event of the poll.
KeyDown(key) ==
    /\ pc = "keys"
    /\ IF key = "K_ESCAPE"
       THEN /\ pc' = "exited"
            /\ UNCHANGED <<next_direction, current_speed>>
       ELSE IF key = "K_q"
       THEN /\ SpeedUp(current_speed) <= MaxSpeed
            /\ current_speed' = SpeedUp(current_speed)
            /\ UNCHANGED <<pc, next_direction>>
       ELSE IF key = "K_w"
       THEN /\ current_speed' = SlowDown(current_speed)
            /\ UNCHANGED <<pc, next_direction>>
       ELSE /\ next_direction' = direction_map(key)
            /\ UNCHANGED <<pc, current_speed>>
    /\ last_arrow' = (IF key \in ArrowKeys THEN direction_map(key) ELSE last_arrow)
    /\ UNCHANGED <<length, positions, direction, last, entityVars, scoreVars,
                   prev_direction, tickVars>>

\* handle_keys: a QUIT event.
QuitEvent ==
    /\ pc = "keys"
    /\ pc' = "exited"
    /\ UNCHANGED <<snakeVars, entityVars, current_speed, scoreVars, inputVars,
                   tickVars>>

\* handle_keys: an event that is neither QUIT nor KEYDOWN.
OtherEvent ==
    /\ pc = "keys"
    /\ UNCHANGED vars

\* handle_keys: the event queue is drained and current_speed is returned.
EndPoll ==
    /\ pc = "keys"
    /\ pc' = "update"
    /\ UNCHANGED <<snakeVars, entityVars, current_speed, scoreVars, inputVars,
                   tickVars>>

\* Snake.update_direction
update_direction ==
    /\ pc = "update"
    /\ IF next_direction # None
       THEN /\ direction' = next_direction
            /\ next_direction' = None
       ELSE UNCHANGED <<direction, next_direction>>
    /\ prev_direction' = direction
    /\ pc' = "move"
    /\ UNCHANGED <<length, positions, last, entityVars, current_speed, scoreVars,
                   last_arrow, tickVars>>

\* A collision test that leaves out the tail cell, positions[1:-1].
Collides_without_tail(pos, d) ==
    NewHead(pos[1], d) \in SetOf(SubSeq(pos, 2, Len(pos) - 1))

\* A move without the self-collision test.
Collides_unchecked(pos, d) == FALSE

\* Snake.move's test: the new head is on positions[1:].
Collides(pos, d) == NewHead(pos[1], d) \in SetOf(Rest(pos))

\* A trim that pops the tail as soon as the body has length cells.
Trimmed_off_by_one(grown, len) == IF Len(grown) >= len THEN Popped(grown) ELSE grown

\* Snake.move: the body with the new head on, the tail popped when it is
\* longer than length.
Trimmed(grown, len) == IF Len(grown) > len THEN Popped(grown) ELSE grown

\* Snake.move: self.last, the cell popped off the tail, or None.
PoppedTail(grown, len) == IF Len(grown) > len THEN grown[Len(grown)] ELSE None

\* Snake.reset: self.__init__()
reset ==
    /\ length' = SnakeInit.length
    /\ positions' = SnakeInit.positions
    /\ direction' = SnakeInit.direction
    /\ next_direction' = SnakeInit.next_direction
    /\ last' = SnakeInit.last

\* An apple worth two cells.
GrownLength_by_two(len) == len + 2

\* main: snake.length += 1
GrownLength(len) == len + 1

\* A shrink that is also allowed at length 1.
CanShrink_at_one(len) == len > 0

\* main: the bad food shrinks a snake of length > 1 and resets any other.
CanShrink(len) == len > 1

\* Snake.move
move ==
    /\ pc = "move"
    /\ IF Collides(positions, direction)
       THEN /\ reset
            /\ resets' = {"move"}
       ELSE /\ positions' =
                   Trimmed(<<NewHead(HeadPos, direction)>> \o positions, length)
            /\ last' = PoppedTail(<<NewHead(HeadPos, direction)>> \o positions, length)
            /\ resets' = {}
            /\ UNCHANGED <<length, direction, next_direction>>
    /\ ateApple' = FALSE
    /\ shrunk' = FALSE
    /\ prev_direction' = None
    /\ last_arrow' = None
    /\ pc' = "apple"
    /\ UNCHANGED <<entityVars, current_speed, scoreVars>>

\* main: the apple check.
AppleCheck ==
    /\ pc = "apple"
    /\ IF HeadPos = apple
       THEN /\ length' = GrownLength(length)
            /\ ateApple' = TRUE
            /\ IF get_available_positions(positions) = {}
               THEN \* choice([]) raises IndexError
                    /\ pc' = "crashed"
                    /\ UNCHANGED apple
               ELSE /\ apple' \in get_available_positions(positions)
                    /\ pc' = "bad"
       ELSE /\ pc' = "bad"
            /\ UNCHANGED <<length, apple, ateApple>>
    /\ UNCHANGED <<positions, direction, next_direction, last, bad_food, obstacle,
                   current_speed, scoreVars, inputVars, shrunk, resets>>

\* main: the bad-food check.
BadFoodCheck ==
    /\ pc = "bad"
    /\ IF HeadPos = bad_food
       THEN /\ IF CanShrink(length)
               THEN /\ length' = length - 1
                    /\ positions' = Popped(positions)
                    /\ shrunk' = TRUE
                    /\ UNCHANGED <<direction, next_direction, last, scoreVars, resets>>
               ELSE /\ ChangeTitleCall(length)
                    /\ reset
                    /\ resets' = resets \cup {"bad"}
                    /\ UNCHANGED shrunk
            /\ IF get_available_positions(positions') = {}
               THEN /\ pc' = "crashed"
                    /\ UNCHANGED bad_food
               ELSE /\ bad_food' \in get_available_positions(positions')
                    /\ pc' = "obstacle"
       ELSE /\ pc' = "obstacle"
            /\ UNCHANGED <<snakeVars, bad_food, scoreVars, shrunk, resets>>
    /\ UNCHANGED <<apple, obstacle, current_speed, inputVars, ateApple>>

\* main: the obstacle check.
ObstacleCheck ==
    /\ pc = "obstacle"
    /\ IF positions = <<>>
       THEN \* get_head_position: positions[0] raises IndexError
            /\ pc' = "crashed"
            /\ UNCHANGED <<snakeVars, obstacle, scoreVars, resets>>
       ELSE IF HeadPos = obstacle
       THEN /\ ChangeTitleCall(length)
            /\ reset
            /\ resets' = resets \cup {"obstacle"}
            /\ obstacle' \in get_available_positions(positions')
            /\ pc' = "draw"
       ELSE /\ pc' = "draw"
            /\ UNCHANGED <<snakeVars, obstacle, scoreVars, resets>>
    /\ UNCHANGED <<apple, bad_food, current_speed, inputVars, ateApple, shrunk>>

\* main: the board, the info bar, the entities and the snake are drawn.
Draw ==
    /\ pc = "draw"
    /\ pc' = "keys"
    /\ UNCHANGED <<snakeVars, entityVars, current_speed, scoreVars, inputVars,
                   tickVars>>

Next ==
    \/ Startup
    \/ \E key \in Keys : KeyDown(key)
    \/ QuitEvent
    \/ OtherEvent
    \/ EndPoll
    \/ update_direction
    \/ move
    \/ AppleCheck
    \/ BadFoodCheck
    \/ ObstacleCheck
    \/ Draw

Spec == Init /\ [][Next]_vars

(* ------------------------------------------------------------------ *)
(* load_high_score and save_high_score on their own: the file starts   *)
(* absent or with any short text, and the two functions are called in  *)
(* any order with any score.                                           *)
(* ------------------------------------------------------------------ *)
\* The characters a file text is built from: digits, signs, a letter, blanks.
FileChars == {"0", "1", "2", "9", "-", "+", "a", " ", "\n"}

\* Every text of at most MaxText characters.
FileTexts == UNION {[1..k -> FileChars] : k \in 0..MaxText}

\* The scores save_high_score is called with.
Scores == 0..MaxScore

ScoreInit ==
    /\ pc = "file_ops"
    /\ file \in {NoFile} \cup {FileWith(t) : t \in FileTexts}
    /\ high_score = None
    /\ score = None
    /\ length = SnakeInit.length
    /\ positions = SnakeInit.positions
    /\ direction = SnakeInit.direction
    /\ next_direction = SnakeInit.next_direction
    /\ last = SnakeInit.last
    /\ apple = <<0, 0>>
    /\ bad_food = <<0, 0>>
    /\ obstacle = <<0, 0>>
    /\ current_speed = SPEED
    /\ prev_direction = None
    /\ last_arrow = None
    /\ ateApple = FALSE
    /\ shrunk = FALSE
    /\ resets = {}

\* A call save_high_score(v).
SaveScore(v) ==
    /\ pc \in {"file_ops", "saved", "loaded", "reloaded"}
    /\ file' = save_high_score(v)
    /\ score' = v
    /\ pc' = "saved"
    /\ UNCHANGED <<high_score, snakeVars, entityVars, current_speed, inputVars,
                   tickVars>>

\* A call load_high_score(): "reloaded" when a save came before it.
LoadScore ==
    /\ pc \in {"file_ops", "saved", "loaded", "reloaded"}
    /\ high_score' = load_high_score(file)
    /\ pc' = (IF pc \in {"saved", "reloaded"} THEN "reloaded" ELSE "loaded")
    /\ UNCHANGED <<file, score, snakeVars, entityVars, current_speed, inputVars,
                   tickVars>>

ScoreNext ==
    \/ \E v \in Scores : SaveScore(v)
    \/ LoadScore

ScoreSpec == ScoreInit /\ [][ScoreNext]_vars

(* ------------------------------------------------------------------ *)
(* Definitions the properties share.                                   *)
(* ------------------------------------------------------------------ *)
\* The integer load_high_score() would return now.
StoredHighScore == load_high_score(file)

\* The cell Snake.move computes as the new head.
NextHeadCell == NewHead(positions[1], direction)

\* The new head is one of positions[1:], told without Snake.move's own test.
HitsOwnBody == \E i \in 2..Len(positions) : positions[i] = NextHeadCell

\* The three places a gameplay failure resets the snake.
ResetInMove == pc = "move" /\ HitsOwnBody
ResetByBadFood == pc = "bad" /\ positions[1] = bad_food /\ length = 1
ResetByObstacle == pc = "obstacle" /\ positions # <<>> /\ positions[1] = obstacle

\* The snake as Snake.__init__ leaves it.
CanonicalSnake(len, pos, dir, nxt) ==
    /\ len = 1
    /\ pos = <<(<<SCREEN_WIDTH \div 2, SCREEN_HEIGHT \div 2>>)>>
    /\ dir = RIGHT
    /\ nxt = None

\* A KEYDOWN key that is no arrow, Q, W or Escape.
UnrecognizedKeys == Keys \ (ArrowKeys \cup {"K_q", "K_w", "K_ESCAPE"})

(* ------------------------------------------------------------------ *)
(* C1                                                                  *)
(* ------------------------------------------------------------------ *)
\* C1: whenever a gameplay failure resets the snake (self-collision inside
\* move(), bad food eaten at length 1, or an obstacle hit), the stored high
\* score right after the reset is at least the snake's length just before it.
C1_ResetPersistsHighScore ==
    [][(ResetInMove \/ ResetByBadFood \/ ResetByObstacle)
          => load_high_score(file') >= length]_vars

(* ------------------------------------------------------------------ *)
(* C2                                                                  *)
(* ------------------------------------------------------------------ *)
\* C2: at the end of a tick with no reset and no apple eaten the body has
\* exactly length cells; the body differs from length only at the end of a
\* tick in which the apple was eaten, and then it is one cell shorter.
C2_BodyMatchesLength ==
    pc = "draw" =>
        /\ (resets = {} /\ ~ateApple) => Len(positions) = length
        /\ Len(positions) # length => (ateApple /\ Len(positions) = length - 1)

\* A tick without reset or apple ends with a snake of two cells that moved.
C2_Witness ==
    /\ pc = "draw"
    /\ resets = {}
    /\ ~ateApple
    /\ length = 2
    /\ Len(positions) = 2

(* ------------------------------------------------------------------ *)
(* C3                                                                  *)
(* ------------------------------------------------------------------ *)
\* C3: a KEYDOWN event for a key other than the arrows, Q, W and Escape leaves
\* next_direction, direction and the tick rate unchanged, also when an arrow
\* key was queued earlier in the same poll.
C3_UnrecognizedKeyIsNoOp ==
    [][\A key \in UnrecognizedKeys :
          KeyDown(key) => UNCHANGED <<next_direction, direction, current_speed>>]_vars

(* ------------------------------------------------------------------ *)
(* C4                                                                  *)
(* ------------------------------------------------------------------ *)
\* C4 as stated: the stored high score changes only in a step of a
\* reset-triggering event (bad food at length 1 or an obstacle hit) and only
\* when the snake's length exceeds the stored value; it never decreases.
C4_Original ==
    [][/\ file' # file =>
            /\ ResetByBadFood \/ ResetByObstacle
            /\ length > StoredHighScore
       /\ load_high_score(file') >= StoredHighScore]_vars

\* C4 amended: the file is written only by main's change_title before the
\* loop or in a step of a reset-triggering event (bad food at length 1 or an
\* obstacle hit), only when the snake's length exceeds the stored value, which
\* then becomes that length; the stored value never decreases.
C4_StoreWrittenOnlyAtStartOrReset ==
    [][/\ file' # file =>
            /\ pc = "start" \/ ResetByBadFood \/ ResetByObstacle
            /\ length > StoredHighScore
            /\ load_high_score(file') = length
       /\ load_high_score(file') >= StoredHighScore]_vars

\* An obstacle hit by a snake of length 2 has raised the stored value to 2.
C4_Witness ==
    /\ pc = "draw"
    /\ "obstacle" \in resets
    /\ file = FileWith(<<"2">>)

(* ------------------------------------------------------------------ *)
(* C5                                                                  *)
(* ------------------------------------------------------------------ *)
\* A cell of the grid: both coordinates are non-negative multiples of the cell
\* size below the board's pixel dimensions.
IsGridCell(c) ==
    /\ c[1] >= 0 /\ c[1] < SCREEN_WIDTH /\ c[1] % GRID_SIZE = 0
    /\ c[2] >= 0 /\ c[2] < SCREEN_HEIGHT /\ c[2] % GRID_SIZE = 0

\* C5: every body cell of the snake and the positions of the apple, the bad
\* food and the obstacle are cells of the grid, in every reachable state.
C5_PositionsOnGrid ==
    /\ \A i \in DOMAIN positions : IsGridCell(positions[i])
    /\ IsGridCell(apple)
    /\ IsGridCell(bad_food)
    /\ IsGridCell(obstacle)

\* A snake of two cells has just wrapped from the last column to column 0.
C5_Witness ==
    /\ pc = "apple"
    /\ Len(positions) = 2
    /\ direction = RIGHT
    /\ positions[2][1] = SCREEN_WIDTH - GRID_SIZE
    /\ positions[1][1] = 0

(* ------------------------------------------------------------------ *)
(* C6                                                                  *)
(* ------------------------------------------------------------------ *)
\* C6: every relocation of an entity (at construction and at every
\* randomize_position call of the loop) assigns a cell that is not in the
\* snake's body as it is at the call.
C6_RelocationAvoidsSnake ==
    /\ pc = "start" =>
          /\ apple \notin SetOf(positions)
          /\ bad_food \notin SetOf(positions)
          /\ obstacle \notin SetOf(positions)
    /\ [][/\ (pc = "apple" /\ positions[1] = apple /\ pc' = "bad")
                => apple' \notin SetOf(positions)
          /\ (pc = "bad" /\ positions[1] = bad_food /\ pc' = "obstacle")
                => bad_food' \notin SetOf(positions')
          /\ (ResetByObstacle /\ pc' = "draw")
                => obstacle' \notin SetOf(positions')]_vars

\* The apple was eaten by a snake of two cells and has been placed again.
C6_Witness ==
    /\ pc = "bad"
    /\ ateApple
    /\ Len(positions) = 2
    /\ apple \notin SetOf(positions)

(* ------------------------------------------------------------------ *)
(* C7                                                                  *)
(* ------------------------------------------------------------------ *)
\* C7: move() resets the snake (length 1, body the single center cell) exactly
\* when the new head cell is one of the pre-move positions[1:], the tail cell
\* included; otherwise it puts the new head in front and does not reset.
C7_MoveResetsIffOwnBodyHit ==
    [][pc = "move" =>
          IF HitsOwnBody
          THEN /\ length' = 1
               /\ positions' = <<Center>>
               /\ "move" \in resets'
          ELSE /\ positions'[1] = NextHeadCell
               /\ \A i \in 2..Len(positions') : positions'[i] = positions[i - 1]
               /\ Len(positions') \in {Len(positions), Len(positions) + 1}
               /\ length' = length
               /\ direction' = direction
               /\ resets' = {}]_vars

\* move() has just reset a snake whose new head cell was on its body.
C7_Witness ==
    /\ pc = "apple"
    /\ resets = {"move"}
    /\ length = 1
    /\ positions = <<Center>>

(* ------------------------------------------------------------------ *)
(* C8                                                                  *)
(* ------------------------------------------------------------------ *)
\* C8: when the head is on the bad food: with length > 1 the length goes down
\* by exactly 1 and exactly the tail cell is dropped, with no reset; with
\* length 1 the snake is reset; either way the bad food is placed again, off
\* the snake.  The length is never below 1.
C8_BadFoodShrinksOrResets ==
    /\ [](length >= 1)
    /\ [][(pc = "bad" /\ positions[1] = bad_food) =>
            /\ IF length > 1
               THEN /\ length' = length - 1
                    /\ positions' = SubSeq(positions, 1, Len(positions) - 1)
                    /\ direction' = direction
                    /\ resets' = resets
               ELSE /\ CanonicalSnake(length', positions', direction', next_direction')
                    /\ "bad" \in resets'
            /\ pc' = "obstacle"
            /\ bad_food' \in ALL_CELLS \ SetOf(positions')]_vars

\* The bad food has just shortened a snake of length 2 by its tail cell.
C8_Witness ==
    /\ pc = "obstacle"
    /\ shrunk
    /\ ~ateApple
    /\ resets = {}
    /\ length = 1
    /\ Len(positions) = 1
    /\ positions[1] # bad_food

(* ------------------------------------------------------------------ *)
(* C9                                                                  *)
(* ------------------------------------------------------------------ *)
\* C9 as stated: when the head is on the apple after move(), length goes up by
\* exactly 1 and the apple is placed again in the same tick; the next tick's
\* move(), if it hits no body cell, keeps the tail, so the body gains one cell.
C9_Original ==
    [][/\ (pc = "apple" /\ positions[1] = apple) =>
            /\ length' = length + 1
            /\ apple' \in ALL_CELLS \ SetOf(positions)
            /\ pc' = "bad"
       /\ (pc = "move" /\ ateApple /\ ~HitsOwnBody) =>
            positions' = <<NextHeadCell>> \o positions]_vars

\* C9 amended: when the head is on the apple after move(), length goes up by
\* exactly 1 and randomize_position is called on the apple in the same tick: it
\* assigns a cell off the snake when there is one and raises when the body fills
\* the board; the next tick's move(), if the obstacle check did not reset the
\* snake in the eating tick and no body cell is hit, keeps the tail, so the body
\* gains exactly one cell.
C9_GrowthOneTickAfterEating ==
    [][/\ (pc = "apple" /\ positions[1] = apple) =>
            /\ length' = length + 1
            /\ IF SetOf(positions) = ALL_CELLS
               THEN pc' = "crashed" /\ apple' = apple
               ELSE pc' = "bad" /\ apple' \in ALL_CELLS \ SetOf(positions)
       /\ (pc = "move" /\ ateApple /\ "obstacle" \notin resets /\ ~HitsOwnBody) =>
            positions' = <<NextHeadCell>> \o positions]_vars

\* The move after an eaten apple has made a body of one cell a body of two.
C9_Witness ==
    /\ pc = "apple"
    /\ resets = {}
    /\ last = None
    /\ length = 2
    /\ Len(positions) = 2

(* ------------------------------------------------------------------ *)
(* C10                                                                 *)
(* ------------------------------------------------------------------ *)
\* C10: a tick whose obstacle check finds the head on the obstacle ends with
\* the snake as Snake.__init__ leaves it (length 1, the single center cell,
\* direction RIGHT, no pending direction), whatever it was before, and with the
\* obstacle on a cell other than the center.
C10_ObstacleHitResets ==
    [][ResetByObstacle =>
          /\ pc' = "draw"
          /\ CanonicalSnake(length', positions', direction', next_direction')
          /\ obstacle' \in ALL_CELLS
          /\ obstacle' # <<SCREEN_WIDTH \div 2, SCREEN_HEIGHT \div 2>>]_vars

\* The obstacle has just reset a snake that had eaten, away from the center.
C10_Witness ==
    /\ pc = "draw"
    /\ resets = {"obstacle"}
    /\ ateApple
    /\ apple # Center
    /\ obstacle # Center

(* ------------------------------------------------------------------ *)
(* C11                                                                 *)
(* ------------------------------------------------------------------ *)
\* The column and the row of a cell, counted from 0.
ColOf(c) == c[1] \div GRID_SIZE
RowOf(c) == c[2] \div GRID_SIZE

\* The neighbour of a cell in a direction on the torus, by cases on the edges:
\* the last column is followed by column 0, row 0 is preceded by the last row.
TorusNeighbour(c, d) ==
    LET col == IF d = RIGHT THEN (IF ColOf(c) = GRID_WIDTH - 1 THEN 0 ELSE ColOf(c) + 1)
               ELSE IF d = LEFT THEN (IF ColOf(c) = 0 THEN GRID_WIDTH - 1 ELSE ColOf(c) - 1)
               ELSE ColOf(c)
        row == IF d = DOWN THEN (IF RowOf(c) = GRID_HEIGHT - 1 THEN 0 ELSE RowOf(c) + 1)
               ELSE IF d = UP THEN (IF RowOf(c) = 0 THEN GRID_HEIGHT - 1 ELSE RowOf(c) - 1)
               ELSE RowOf(c)
    IN  <<col * GRID_SIZE, row * GRID_SIZE>>

\* C11: a move() that does not hit the snake's own body puts the new head on
\* the torus neighbour of the old head in the active direction: one cell
\* further, and from the last column (row) to column (row) 0 in the same row
\* (column) and back, for every head cell and each of the four directions.
C11_MoveWrapsAround ==
    [][(pc = "move" /\ ~HitsOwnBody) =>
          /\ pc' = "apple"
          /\ positions'[1] = TorusNeighbour(positions[1], direction)
          /\ direction' = direction]_vars

\* A snake of two cells has just wrapped upwards from row 0 to the last row.
C11_Witness ==
    /\ pc = "apple"
    /\ resets = {}
    /\ direction = UP
    /\ Len(positions) = 2
    /\ positions[2][2] = 0
    /\ positions[1][2] = SCREEN_HEIGHT - GRID_SIZE
    /\ positions[1][1] = positions[2][1]

(* ------------------------------------------------------------------ *)
(* C12                                                                 *)
(* ------------------------------------------------------------------ *)
\* The value of a decimal digit character.
CharValue(c) ==
    CASE c = "0" -> 0 [] c = "1" -> 1 [] c = "2" -> 2 [] c = "3" -> 3 [] c = "4" -> 4
      [] c = "5" -> 5 [] c = "6" -> 6 [] c = "7" -> 7 [] c = "8" -> 8 [] c = "9" -> 9

RECURSIVE Pow10(_)
Pow10(n) == IF n = 0 THEN 1 ELSE 10 * Pow10(n - 1)

RECURSIVE SumDigits(_, _, _)
\* The number written by the digits t[i..j].
SumDigits(t, i, j) ==
    IF i > j THEN 0 ELSE CharValue(t[i]) * Pow10(j - i) + SumDigits(t, i + 1, j)

\* t[i..j] is the text without its surrounding blanks and is a decimal
\* integer: an optional sign followed by at least one digit, nothing else.
IsIntegerAt(t, i, j) ==
    /\ 1 <= i /\ i <= j /\ j <= Len(t)
    /\ \A k \in 1..(i - 1) : t[k] \in Whitespace
    /\ \A k \in (j + 1)..Len(t) : t[k] \in Whitespace
    /\ LET first == IF t[i] \in {"-", "+"} THEN i + 1 ELSE i
       IN  first <= j /\ \A k \in first..j : t[k] \in DigitSet

HoldsInteger(t) == \E i, j \in 1..Len(t) : IsIntegerAt(t, i, j)

\* The integer a text holds.
HeldInteger(t) ==
    LET ij == CHOOSE r \in (1..Len(t)) \X (1..Len(t)) : IsIntegerAt(t, r[1], r[2])
        i == ij[1]
        j == ij[2]
    IN  IF t[i] = "-" THEN 0 - SumDigits(t, i + 1, j)
        ELSE IF t[i] = "+" THEN SumDigits(t, i + 1, j)
        ELSE SumDigits(t, i, j)

\* C12: load_high_score() returns 0 when the file is absent, empty, or holds a
\* text that is not an integer, and returns the integer when the file holds
\* one (surrounding blanks allowed); it returns for every file, never raising.
C12_LoadReturnsIntegerOrZero ==
    pc \in {"loaded", "reloaded"} =>
        high_score = (IF file.exists /\ HoldsInteger(file.text)
                      THEN HeldInteger(file.text)
                      ELSE 0)

\* A file holding a sign without digits between blanks has been loaded as 0.
C12_Witness ==
    /\ pc = "loaded"
    /\ file = FileWith(<<" ", "-", "\n">>)
    /\ high_score = 0

(* ------------------------------------------------------------------ *)
(* C13                                                                 *)
(* ------------------------------------------------------------------ *)
\* C13: whatever the file was before (absent, malformed, or holding another
\* value), a load_high_score() that follows save_high_score(v) returns v.
C13_SaveLoadRoundTrip ==
    pc = "reloaded" => high_score = score

\* A two-digit score has been saved and read back.
C13_Witness ==
    /\ pc = "reloaded"
    /\ score = 10
    /\ file.text = <<"1", "0">>
    /\ high_score = 10

(* ------------------------------------------------------------------ *)
(* C14                                                                 *)
(* ------------------------------------------------------------------ *)
\* The tick rate after one decrease, with the chain from the initial rate
\* written out: 10, 8, 6, 4, 2, 1, 1.
AfterDecrease(speed) ==
    CASE speed = 10 -> 8
      [] speed = 8 -> 6
      [] speed = 6 -> 4
      [] speed = 4 -> 2
      [] speed = 2 -> 1
      [] speed = 1 -> 1
      [] OTHER -> (IF speed >= 3 THEN speed - 2 ELSE 1)

\* C14: the tick rate is at least 1 in every reachable state; a Q press adds
\* 2 to it and a W press takes 2 off it but never below 1, so the six W
\* presses that follow the initial rate 10 lead through 8, 6, 4, 2, 1 to 1.
C14_SpeedNeverBelowOne ==
    /\ [](current_speed >= 1)
    /\ [](SlowDown(SlowDown(SlowDown(SlowDown(SlowDown(SlowDown(SPEED)))))) = 1)
    /\ [][KeyDown("K_w") => current_speed' = AfterDecrease(current_speed)]_vars
    /\ [][KeyDown("K_q") => current_speed' = current_speed + 2]_vars

\* The rate has been brought down to the floor while the game goes on.
C14_Witness ==
    /\ pc = "draw"
    /\ current_speed = 1
    /\ Len(positions) = 2

(* ------------------------------------------------------------------ *)
(* C15                                                                 *)
(* ------------------------------------------------------------------ *)
\* The exact reverse of a direction.
Reverse(d) == <<0 - d[1], 0 - d[2]>>

\* move() is about to act with the reverse of the direction the snake moved
\* in on the tick before (a tick in which it was not reset).
ReversalTick ==
    /\ pc = "move"
    /\ resets = {}
    /\ prev_direction # None
    /\ direction = Reverse(prev_direction)

\* move() has reset the snake in this step.
MoveResetsSnake ==
    /\ resets' = {"move"}
    /\ CanonicalSnake(length', positions', direction', next_direction')

\* C15 as stated: with length >= 2, a move() in the reverse of the previous
\* tick's direction resets the snake by self-collision.
C15_Original ==
    [][(ReversalTick /\ length >= 2) => MoveResetsSnake]_vars

\* C15: when the body holds at least two cells, a move() in the exact reverse
\* of the direction moved in on the previous tick finds the new head on the
\* second body cell and resets the snake. (A snake of length 2 whose second
\* cell has not been laid yet, the tick after its first apple, reverses freely.)
C15_ReversalWithTwoCellsResets ==
    [][(ReversalTick /\ Len(positions) >= 2) => MoveResetsSnake]_vars

\* A snake of two cells going up has had DOWN applied and is about to move.
C15_Witness ==
    /\ ReversalTick
    /\ prev_direction = UP
    /\ length = 2
    /\ Len(positions) = 2
    /\ positions[2] = NextHeadCell

(* ------------------------------------------------------------------ *)
(* C16                                                                 *)
(* ------------------------------------------------------------------ *)
\* C16: the snake's body holds at least one cell in every reachable state, so
\* get_head_position() always has a cell to return, also when the apple and
\* the bad food lie on the same cell.
C16_BodyNeverEmpty == Len(positions) >= 1

(* ------------------------------------------------------------------ *)
(* C17                                                                 *)
(* ------------------------------------------------------------------ *)
\* The direction of the poll's last arrow-key event is the active direction
\* once update_direction() has run, and still when move() runs.
LastArrowIsApplied ==
    [][/\ (pc = "update" /\ last_arrow # None) => direction' = last_arrow
       /\ (pc = "move" /\ last_arrow # None) => direction = last_arrow]_vars

\* From update_direction() to the end of the tick no direction is pending.
NothingPendingAfterUpdate ==
    [](pc \in {"move", "apple", "bad", "obstacle", "draw"} => next_direction = None)

\* The active direction changes only in update_direction() or in a reset.
DirectionChangesOnlyInUpdateOrReset ==
    [][direction' # direction =>
          \/ pc = "update"
          \/ ResetInMove
          \/ ResetByBadFood
          \/ ResetByObstacle]_vars

\* C17: the direction queued by the last arrow-key event of a tick's poll is
\* the active direction before that tick's move() and is the one move() uses;
\* at the end of every tick no direction is pending; the active direction
\* changes only in update_direction() or reset().
C17_QueuedDirectionApplied ==
    /\ LastArrowIsApplied
    /\ NothingPendingAfterUpdate
    /\ DirectionChangesOnlyInUpdateOrReset

(* ------------------------------------------------------------------ *)
(* C18                                                                 *)
(* ------------------------------------------------------------------ *)
\* The body lies on every cell of the board.
BodyCoversBoard ==
    \A c \in ALL_CELLS : \E i \in DOMAIN positions : positions[i] = c

\* C18: no relocation is called with an empty set of candidate cells: the
\* apple check never finds the head on the apple while the body covers the
\* whole board (the bad-food and obstacle checks relocate after a shrink or a
\* reset, which frees a cell), so choice() never gets an empty list.
C18_RelocationHasCandidates ==
    /\ ~(pc = "apple" /\ positions # <<>> /\ positions[1] = apple /\ BodyCoversBoard)
    /\ ~(pc = "crashed" /\ positions # <<>>)

C20_BodyCellsDistinct ==
    \A i, j \in DOMAIN positions : i # j => positions[i] # positions[j]

\* A body of three cells has been shrunk to two by the bad food, in a tick in
\* which the snake also ate.
C20_Witness ==
    /\ pc = "draw"
    /\ shrunk
    /\ ateApple
    /\ resets = {}
    /\ Len(positions) = 2
    /\ length = 3

\* The program has died of an IndexError.
Crashed == pc = "crashed"

====
